---------------------------- MODULE Spec2Model ----------------------------
(***************************************************************************)
(* Model of briefing_server/data.py: get_titles_by_date_range and          *)
(* get_rss_by_date_range.                                                  *)
(*                                                                         *)
(* Strings are sequences of one-character strings, so that strptime,       *)
(* strftime, str.lower and the substring / regex tests are computed.       *)
(* None and "" are both falsy wherever the code tests them (`if query:`,   *)
(* `item.first_time or ...`), so an absent string is the empty sequence    *)
(* and an absent timestamp is 0; timestamps are totally ordered values     *)
(* (fixed-width strings compared with < and >).                            *)
(* Python lists are objects: a list lives in a heap cell and a dict field  *)
(* holds a reference to it, so two fields may hold the same list.          *)
(* The storage collaborator is outside the repository: each call of        *)
(* get_today_all_data / get_rss_data either raises, returns nothing, or    *)
(* returns a freshly built snapshot.                                       *)
(***************************************************************************)
EXTENDS Integers, Sequences, FiniteSets, TLC

VARIABLES
    world,                  \* which family of inputs the storage serves
    fn,                     \* "titles" | "rss": the function being called
    start_date, end_date,   \* arguments: the date strings
    current_platform_ids,   \* argument (allowed_feed_ids for rss)
    query, include_regex,   \* arguments
    pc,                     \* position in the function body
    current, end,           \* the parsed cursor and upper bound
    news_data,              \* the snapshot of the day being processed
    source_pos, item_pos,   \* positions of the two for loops
    aggregated_results, aggregated_title_info, final_id_to_name,
    heap,                   \* the list objects the dicts refer to
    rss_items,
    ret,                    \* the returned tuple, once pc = "done"
    requests,               \* the date strings handed to the storage, in order
    served,                 \* what the storage answered, in order
    rule_strings,           \* argument of parse_frequency_rules
    word_groups,            \* the blocks of the joined rule documents
    group_pos,              \* position of the loop over word_groups
    current_section,
    processed_groups, filter_words, global_filters,
    service,                \* main.py: the global service is initialized
    request,                \* the BriefingRequest of the call
    exc,                    \* the exception raised inside the try block, if any
    response,               \* what the handler answered
    started                 \* the calls made on the service, in order

vars == << world, fn, start_date, end_date, current_platform_ids, query,
           include_regex, pc, current, end, news_data, source_pos, item_pos,
           aggregated_results, aggregated_title_info, final_id_to_name, heap,
           rss_items, ret, requests, served,
          rule_strings, word_groups, group_pos, current_section,
          processed_groups, filter_words, global_filters,
          service, request, exc, response, started >>

api == << service, request, exc, response, started >>

rules == << rule_strings, word_groups, group_pos, current_section,
            processed_groups, filter_words, global_filters >>

---------------------------------------------------------------------------
(* Bounds of the model *)

MaxDays == 3
MergeDays == 2
MaxItems == 2
MaxRank == 2
MaxRanksLen == 2
MaxTime == 3
MaxCount == 2
MaxTimelineLen == 1
MaxLines == 4
MaxWords == 2

---------------------------------------------------------------------------
(* Generic helpers *)

Range(s) == { s[i] : i \in 1..Len(s) }

SeqsUpTo(S, n) == UNION { [1..k -> S] : k \in 0..n }

NoDuplicates(s) == \A i, j \in 1..Len(s) : i # j => s[i] # s[j]

IsPrefix(s, t) == Len(s) <= Len(t) /\ SubSeq(t, 1, Len(s)) = s

EmptyMap == << >>

HasKey(m, k) == k \in DOMAIN m

Put(m, k, v) == [ x \in (DOMAIN m) \cup {k} |-> IF x = k THEN v ELSE m[x] ]

\* dict.update: the keys of n overwrite those of m
Update(m, n) == [ x \in (DOMAIN m) \cup (DOMAIN n) |-> IF x \in DOMAIN n THEN n[x] ELSE m[x] ]

---------------------------------------------------------------------------
(* datetime.strptime(s, "%Y-%m-%d"), strftime("%Y-%m-%d"), + timedelta(days=1) *)

Digits == << "0", "1", "2", "3", "4", "5", "6", "7", "8", "9" >>

IsDigit(c) == c \in Range(Digits)

DigitVal(c) == CHOOSE n \in 0..9 : Digits[n + 1] = c

RECURSIVE Number(_)
Number(s) == IF s = << >> THEN 0
             ELSE 10 * Number(SubSeq(s, 1, Len(s) - 1)) + DigitVal(s[Len(s)])

AllDigits(s) == \A i \in 1..Len(s) : IsDigit(s[i])

\* %Y: exactly four digits
YearText(s) == Len(s) = 4 /\ AllDigits(s)

\* %m: 1[0-2] | 0[1-9] | [1-9]
MonthText(s) ==
    \/ Len(s) = 2 /\ s[1] = "1" /\ s[2] \in {"0", "1", "2"}
    \/ Len(s) = 2 /\ s[1] = "0" /\ IsDigit(s[2]) /\ s[2] # "0"
    \/ Len(s) = 1 /\ IsDigit(s[1]) /\ s[1] # "0"

\* %d: 3[01] | [12]\d | 0[1-9] | [1-9] | " "[1-9]
DayText(s) ==
    \/ Len(s) = 2 /\ s[1] = "3" /\ s[2] \in {"0", "1"}
    \/ Len(s) = 2 /\ s[1] \in {"1", "2"} /\ IsDigit(s[2])
    \/ Len(s) = 2 /\ s[1] \in {"0", " "} /\ IsDigit(s[2]) /\ s[2] # "0"
    \/ Len(s) = 1 /\ IsDigit(s[1]) /\ s[1] # "0"

DayNumber(s) == IF s[1] = " " THEN Number(Tail(s)) ELSE Number(s)

IsLeap(y) == (y % 4 = 0 /\ y % 100 # 0) \/ y % 400 = 0

DaysInMonth(y, m) ==
    IF m = 2 THEN (IF IsLeap(y) THEN 29 ELSE 28)
    ELSE IF m \in {4, 6, 9, 11} THEN 30 ELSE 31

\* the position of the first "-" at or after position i, or 0
RECURSIVE FindDash(_, _)
FindDash(s, i) == IF i > Len(s) THEN 0
                  ELSE IF s[i] = "-" THEN i ELSE FindDash(s, i + 1)

\* strptime: [ok, date]; ok = FALSE stands for the ValueError / TypeError it raises
Strptime(s) ==
    LET d1 == FindDash(s, 1)
        d2 == IF d1 = 0 THEN 0 ELSE FindDash(s, d1 + 1)
        yt == SubSeq(s, 1, d1 - 1)
        mt == SubSeq(s, d1 + 1, d2 - 1)
        dt == SubSeq(s, d2 + 1, Len(s))
        shaped == d1 # 0 /\ d2 # 0 /\ YearText(yt) /\ MonthText(mt) /\ DayText(dt)
        y == Number(yt)
        m == Number(mt)
        d == DayNumber(dt)
    IN  IF shaped /\ y >= 1 /\ d <= DaysInMonth(y, m)
        THEN [ok |-> TRUE, date |-> << y, m, d >>]
        ELSE [ok |-> FALSE, date |-> << 0, 0, 0 >>]

TwoDigits(n) == << Digits[(n \div 10) + 1], Digits[(n % 10) + 1] >>

FourDigits(n) == TwoDigits(n \div 100) \o TwoDigits(n % 100)

Strftime(date) == FourDigits(date[1]) \o << "-" >> \o TwoDigits(date[2])
                  \o << "-" >> \o TwoDigits(date[3])

\* bug: while current < end
DateLess(a, b) ==
    \/ a[1] < b[1]
    \/ a[1] = b[1] /\ a[2] < b[2]
    \/ a[1] = b[1] /\ a[2] = b[2] /\ a[3] < b[3]

\* current <= end on datetime values
DateLeq(a, b) ==
    \/ a[1] < b[1]
    \/ a[1] = b[1] /\ a[2] < b[2]
    \/ a[1] = b[1] /\ a[2] = b[2] /\ a[3] <= b[3]

\* current + timedelta(days=1)
NextDay(date) ==
    LET y == date[1]
        m == date[2]
        d == date[3]
    IN  IF d < DaysInMonth(y, m) THEN << y, m, d + 1 >>
        ELSE IF m < 12 THEN << y, m + 1, 1 >>
        ELSE << y + 1, 1, 1 >>

---------------------------------------------------------------------------
(* The query and include_regex filters *)

LowerChar(c) == IF c = "A" THEN "a" ELSE IF c = "B" THEN "b"
                ELSE IF c = "C" THEN "c" ELSE IF c = "D" THEN "d" ELSE c

Lower(s) == [ i \in 1..Len(s) |-> LowerChar(s[i]) ]

\* needle in hay
Contains(hay, needle) ==
    \E i \in 0..(Len(hay) - Len(needle)) : SubSeq(hay, i + 1, i + Len(needle)) = needle

\* a pattern is a sequence of atoms: a literal character, "." (any character),
\* or "[" which opens a character set that is never closed (re.error)
RegexCompiles(p) == \A i \in 1..Len(p) : p[i] # "["

\* re.search(p, title, re.IGNORECASE) for a pattern that compiles
RegexSearch(p, title) ==
    \E i \in 0..(Len(title) - Len(p)) :
        \A k \in 1..Len(p) : p[k] = "." \/ LowerChar(p[k]) = LowerChar(title[i + k])

\* a query that is no string: the bool True is truthy at line 60 and has no .lower()
TrueValue == << "True" >>

\* line 62 (line 160) raises AttributeError
QueryRaises(q) == q = TrueValue

\* lines 60-63
PassesQuery(q, title) == q = << >> \/ Contains(Lower(title), Lower(q))

\* lines 66-68, for a pattern that compiles
PassesRegex(p, title) == p = << >> \/ RegexSearch(p, title)

\* line 67 raises re.error
RegexRaises(p) == p # << >> /\ ~RegexCompiles(p)

---------------------------------------------------------------------------
(* The merge of one item into the accumulators (lines 70-112).             *)
(* acc = [results, info, names, heap]; heap.ranks and heap.timeline are    *)
(* the list objects, a cell = [val, own]: own = "input" when the list is   *)
(* the served item's own list, "fresh" when the code built it.             *)

EmptyHeap == [ranks |-> << >>, timeline |-> << >>]

EmptyAcc == [results |-> EmptyMap, info |-> EmptyMap, names |-> EmptyMap, heap |-> EmptyHeap]

\* item.ranks or [item.rank]  (lines 76, 96)
NewRanks(item) == IF item.ranks # << >> THEN item.ranks ELSE << item.rank >>

\* item.first_time or item.crawl_time  (lines 80, 98)
ItemFirst(item) == IF item.first_time # 0 THEN item.first_time ELSE item.crawl_time

\* bug: last_time taken as it is, without the crawl_time fallback
ItemLastNoFallback(item) == item.last_time

\* item.last_time or item.crawl_time  (lines 81, 99)
ItemLast(item) == IF item.last_time # 0 THEN item.last_time ELSE item.crawl_time

\* line 77: the comprehension is built against the list as it is before the extend
ExtendRanks(old, new_ranks) ==
    LET IsNew(r) == r \notin Range(old)
    IN  old \o SelectSeq(new_ranks, IsNew)

\* bug: first_time overwritten by every observation
LowerFirstOverwrite(existing_first, item_first) == item_first

\* lines 82-83
LowerFirst(existing_first, item_first) ==
    IF item_first < existing_first THEN item_first ELSE existing_first

\* lines 84-85
RaiseLast(existing_last, item_last) ==
    IF item_last > existing_last THEN item_last ELSE existing_last

\* bug: count assigned instead of added
AddCountReset(existing_count, item_count) == item_count

\* line 88
AddCount(existing_count, item_count) == existing_count + item_count

\* bug: rank_timeline de-duplicated the way ranks is
ExtendTimelineNoRepeat(old, item_timeline) ==
    LET IsNew(e) == e \notin Range(old)
    IN  old \o SelectSeq(item_timeline, IsNew)

\* lines 91-92
ExtendTimeline(old, item_timeline) ==
    IF item_timeline # << >> THEN old \o item_timeline ELSE old

\* lines 108-112: the projection holds the list object `ranks` itself
Projection(ranks_ref, info) ==
    [ranks |-> ranks_ref, url |-> info.url, mobileUrl |-> info.mobileUrl]

\* bug: the projection gets a copy of the ranks list (list(ranks))
MergeNewCopies(acc, source_id, item) ==
    LET ranks_ref == Len(acc.heap.ranks) + 1
        copy_ref == Len(acc.heap.ranks) + 2
        timeline_ref == Len(acc.heap.timeline) + 1
        ranks_cell == [val |-> NewRanks(item),
                       own |-> IF item.ranks # << >> THEN "input" ELSE "fresh"]
        copy_cell == [val |-> NewRanks(item), own |-> "fresh"]
        timeline_cell == [val |-> item.rank_timeline,
                          own |-> IF item.rank_timeline # << >> THEN "input" ELSE "fresh"]
        info == [first_time |-> ItemFirst(item),
                 last_time |-> ItemLast(item),
                 count |-> item.count,
                 ranks |-> ranks_ref,
                 url |-> item.url,
                 mobileUrl |-> item.mobile_url,
                 rank_timeline |-> timeline_ref]
    IN  [results |-> Put(acc.results, source_id,
                         Put(acc.results[source_id], item.title, Projection(copy_ref, info))),
         info |-> Put(acc.info, source_id, Put(acc.info[source_id], item.title, info)),
         names |-> acc.names,
         heap |-> [ranks |-> acc.heap.ranks \o << ranks_cell, copy_cell >>,
                   timeline |-> Append(acc.heap.timeline, timeline_cell)]]

\* lines 96-112: first observation of (source_id, title)
MergeNew(acc, source_id, item) ==
    LET ranks_ref == Len(acc.heap.ranks) + 1
        timeline_ref == Len(acc.heap.timeline) + 1
        ranks_cell == [val |-> NewRanks(item),
                       own |-> IF item.ranks # << >> THEN "input" ELSE "fresh"]
        timeline_cell == [val |-> item.rank_timeline,
                          own |-> IF item.rank_timeline # << >> THEN "input" ELSE "fresh"]
        info == [first_time |-> ItemFirst(item),
                 last_time |-> ItemLast(item),
                 count |-> item.count,
                 ranks |-> ranks_ref,
                 url |-> item.url,
                 mobileUrl |-> item.mobile_url,
                 rank_timeline |-> timeline_ref]
    IN  [results |-> Put(acc.results, source_id,
                         Put(acc.results[source_id], item.title, Projection(ranks_ref, info))),
         info |-> Put(acc.info, source_id, Put(acc.info[source_id], item.title, info)),
         names |-> acc.names,
         heap |-> [ranks |-> Append(acc.heap.ranks, ranks_cell),
                   timeline |-> Append(acc.heap.timeline, timeline_cell)]]

\* lines 73-92: repeat observation of (source_id, title)
MergeExisting(acc, source_id, item) ==
    LET existing == acc.info[source_id][item.title]
        ranks_cell == acc.heap.ranks[existing.ranks]
        timeline_cell == acc.heap.timeline[existing.rank_timeline]
        updated == [existing EXCEPT
                      !.first_time = LowerFirst(existing.first_time, ItemFirst(item)),
                      !.last_time = RaiseLast(existing.last_time, ItemLast(item)),
                      !.count = AddCount(existing.count, item.count)]
    IN  [results |-> acc.results,
         info |-> Put(acc.info, source_id, Put(acc.info[source_id], item.title, updated)),
         names |-> acc.names,
         heap |-> [ranks |-> [acc.heap.ranks EXCEPT ![existing.ranks] =
                                [ranks_cell EXCEPT !.val = ExtendRanks(ranks_cell.val, NewRanks(item))]],
                   timeline |-> [acc.heap.timeline EXCEPT ![existing.rank_timeline] =
                                [timeline_cell EXCEPT !.val = ExtendTimeline(timeline_cell.val, item.rank_timeline)]]]]

\* bug: the include_regex filter (lines 66-68) left out
ItemOutcomeWithoutRegex(acc, source_id, item, q, p) ==
    IF ~item.wf THEN "raise"
    ELSE IF QueryRaises(q) THEN "raise"
    ELSE IF ~PassesQuery(q, item.title) THEN "skip"
    ELSE IF HasKey(acc.info[source_id], item.title) THEN "repeat"
    ELSE "new"

\* lines 56-112 for one element of news_list: what happens to it
\*   "raise"  the element is no TitleItem (line 57), query.lower() raises (line 62),
\*            or re.search raises (line 67)
\*   "skip"   a filter rejects it (lines 63, 68)
\*   "new" / "repeat"  it is merged (line 71)
ItemOutcome(acc, source_id, item, q, p) ==
    IF ~item.wf THEN "raise"
    ELSE IF QueryRaises(q) THEN "raise"
    ELSE IF ~PassesQuery(q, item.title) THEN "skip"
    ELSE IF RegexRaises(p) THEN "raise"
    ELSE IF ~PassesRegex(p, item.title) THEN "skip"
    ELSE IF HasKey(acc.info[source_id], item.title) THEN "repeat"
    ELSE "new"

VisitItem(acc, source_id, item, q, p) ==
    LET o == ItemOutcome(acc, source_id, item, q, p)
    IN  IF o = "new" THEN MergeNew(acc, source_id, item)
        ELSE IF o = "repeat" THEN MergeExisting(acc, source_id, item)
        ELSE acc

\* line 49
Excluded(ids, source_id) == ~ids.none /\ source_id \notin ids.ids

\* lines 52-54
EnterSource(acc, source_id) ==
    IF HasKey(acc.results, source_id) THEN acc
    ELSE [acc EXCEPT !.results = Put(acc.results, source_id, EmptyMap),
                     !.info = Put(acc.info, source_id, EmptyMap)]

\* line 46
MergeNames(acc, id_to_name) == [acc EXCEPT !.names = Update(acc.names, id_to_name)]

---------------------------------------------------------------------------
(* The whole of get_titles_by_date_range on a given sequence of storage    *)
(* answers (lines 33-120), as one function: the day loop, the source loop  *)
(* and the item loop with the per-day exception handler.                   *)

NoSnapshot == [items |-> << >>, id_to_name |-> EmptyMap]

\* lines 56-112; raised = an element raised and the rest of the day is left out
RECURSIVE RunItems(_, _, _, _, _, _)
RunItems(acc, source_id, news_list, i, q, p) ==
    IF i > Len(news_list) THEN [acc |-> acc, raised |-> FALSE]
    ELSE IF ItemOutcome(acc, source_id, news_list[i], q, p) = "raise"
         THEN [acc |-> acc, raised |-> TRUE]
    ELSE RunItems(VisitItem(acc, source_id, news_list[i], q, p),
                  source_id, news_list, i + 1, q, p)

\* lines 48-112
RECURSIVE RunSources(_, _, _, _, _, _)
RunSources(acc, items, j, ids, q, p) ==
    IF j > Len(items) THEN acc
    ELSE IF Excluded(ids, items[j].source_id) THEN RunSources(acc, items, j + 1, ids, q, p)
    ELSE LET r == RunItems(EnterSource(acc, items[j].source_id), items[j].source_id,
                           items[j].news_list, 1, q, p)
         IN  IF r.raised THEN r.acc ELSE RunSources(r.acc, items, j + 1, ids, q, p)

\* lines 38-118 for one answer of the storage
RunDay(acc, answer, ids, q, p) ==
    IF answer.kind # "data" \/ answer.snap.items = << >> THEN acc
    ELSE RunSources(MergeNames(acc, answer.snap.id_to_name), answer.snap.items, 1, ids, q, p)

\* lines 33-120
RECURSIVE RunDays(_, _, _, _, _, _)
RunDays(acc, answers, k, ids, q, p) ==
    IF k > Len(answers) THEN acc
    ELSE RunDays(RunDay(acc, answers[k], ids, q, p), answers, k + 1, ids, q, p)

---------------------------------------------------------------------------
(* get_rss_by_date_range: one day's snapshot appended to rss_items         *)
(* (lines 152-175)                                                         *)

\* line 154: an empty allowed_feed_ids is falsy and excludes nothing
FeedExcluded(ids, feed_id) == ~ids.none /\ ids.ids # {} /\ feed_id \notin ids.ids

\* bug: feed_name passed on without the feed id as fallback
FeedEntryWithoutFallback(feed_id, item) ==
    [title |-> item.title, url |-> item.url, feed_name |-> item.feed_name,
     feed_id |-> feed_id, published_at |-> item.published_at, summary |-> item.summary]

\* lines 168-175
FeedEntry(feed_id, item) ==
    [title |-> item.title, url |-> item.url,
     feed_name |-> IF item.feed_name # "" THEN item.feed_name ELSE feed_id,
     feed_id |-> feed_id, published_at |-> item.published_at, summary |-> item.summary]

\* lines 157-175; raised = an element raised (line 176 swallows it)
RECURSIVE CollectItems(_, _, _, _, _, _)
CollectItems(out, feed_id, items, i, q, p) ==
    IF i > Len(items) THEN [out |-> out, raised |-> FALSE]
    ELSE IF ~items[i].wf THEN [out |-> out, raised |-> TRUE]
    ELSE IF QueryRaises(q) THEN [out |-> out, raised |-> TRUE]
    ELSE IF ~PassesQuery(q, items[i].title) THEN CollectItems(out, feed_id, items, i + 1, q, p)
    ELSE IF RegexRaises(p) THEN [out |-> out, raised |-> TRUE]
    ELSE IF ~PassesRegex(p, items[i].title) THEN CollectItems(out, feed_id, items, i + 1, q, p)
    ELSE CollectItems(Append(out, FeedEntry(feed_id, items[i])), feed_id, items, i + 1, q, p)

\* lines 153-175
RECURSIVE CollectFeeds(_, _, _, _, _, _)
CollectFeeds(out, feeds, j, ids, q, p) ==
    IF j > Len(feeds) THEN out
    ELSE IF FeedExcluded(ids, feeds[j].source_id) THEN CollectFeeds(out, feeds, j + 1, ids, q, p)
    ELSE LET r == CollectItems(out, feeds[j].source_id, feeds[j].news_list, 1, q, p)
         IN  IF r.raised THEN r.out ELSE CollectFeeds(r.out, feeds, j + 1, ids, q, p)

\* lines 150-177 for one answer of the storage
CollectDay(out, answer, ids, q, p) ==
    IF answer.kind # "data" \/ answer.snap.items = << >> THEN out
    ELSE CollectFeeds(out, answer.snap.items, 1, ids, q, p)

---------------------------------------------------------------------------
(* str operations used by utils.py, on sequences of characters *)

\* the whitespace of the inputs is " ", "\n" and "\t"
RECURSIVE LStrip(_)
LStrip(s) ==
    IF s # << >> /\ Head(s) \in { " ", "\n", "\t" } THEN LStrip(Tail(s)) ELSE s

RECURSIVE RStrip(_)
RStrip(s) ==
    IF s # << >> /\ s[Len(s)] \in { " ", "\n", "\t" }
    THEN RStrip(SubSeq(s, 1, Len(s) - 1)) ELSE s

\* str.strip()
Strip(s) == RStrip(LStrip(s))

StartsWith(s, prefix) == IsPrefix(prefix, s)

\* str.split(sep); SplitFrom reads on from t, cur being the piece that is being read
Split(s, sep) ==
    LET RECURSIVE SplitFrom(_, _)
        SplitFrom(t, cur) ==
            IF t = << >> THEN << cur >>
            ELSE IF StartsWith(t, sep)
                 THEN << cur >> \o SplitFrom(SubSeq(t, Len(sep) + 1, Len(t)), << >>)
            ELSE SplitFrom(Tail(t), Append(cur, Head(t)))
    IN  SplitFrom(s, << >>)

\* sep.join(strs)
RECURSIVE Join(_, _)
Join(strs, sep) ==
    IF strs = << >> THEN << >>
    ELSE IF Len(strs) = 1 THEN strs[1]
    ELSE strs[1] \o sep \o Join(Tail(strs), sep)

LowerLetters == << "a", "b", "c", "d", "e", "f", "g", "h", "i", "j", "k", "l", "m",
                   "n", "o", "p", "q", "r", "s", "t", "u", "v", "w", "x", "y", "z" >>

\* str.upper()
Upper(s) ==
    LET UpperLetters == << "A", "B", "C", "D", "E", "F", "G", "H", "I", "J", "K", "L", "M",
                           "N", "O", "P", "Q", "R", "S", "T", "U", "V", "W", "X", "Y", "Z" >>
        UpperChar(c) ==
            IF c \in Range(LowerLetters)
            THEN UpperLetters[CHOOSE i \in 1..Len(LowerLetters) : LowerLetters[i] = c]
            ELSE c
    IN  [ i \in 1..Len(s) |-> UpperChar(s[i]) ]

\* the None of Python, which is no string
None == << "None" >>

\* int(s): [ok, val]; ok = FALSE stands for the ValueError. Surrounding whitespace
\* and one sign are accepted; the inputs hold no "_" between digits
IntOf(s) ==
    LET t == Strip(s)
        signed == t # << >> /\ t[1] \in { "+", "-" }
        digits == IF signed THEN Tail(t) ELSE t
    IN  IF digits # << >> /\ AllDigits(digits)
        THEN [ok |-> TRUE, val |-> IF signed /\ t[1] = "-" THEN 0 - Number(digits) ELSE Number(digits)]
        ELSE [ok |-> FALSE, val |-> 0]

---------------------------------------------------------------------------
(* _parse_word (utils.py lines 8-46) *)

Arrow == << "=", ">" >>

\* line 17: re.split(r'\s*=>\s*', word, 1) when word holds "=>": the text before the
\* first "=>" without the whitespace that ends it, and the text after it without
\* the whitespace that begins it
SplitArrow(word) ==
    LET Arrows == { k \in 1..(Len(word) - 1) : SubSeq(word, k, k + 1) = Arrow }
        i == CHOOSE k \in Arrows : \A m \in Arrows : k <= m
    IN  << RStrip(SubSeq(word, 1, i - 1)), LStrip(SubSeq(word, i + 2, Len(word))) >>

\* line 25: re.match(r'^/(.+)/[a-z]*$', word_config): [ok, group1]. (.+) is greedy,
\* so the closing "/" is the last one, and what follows it is lower-case letters
RegexMatch(word_config) ==
    LET Slashes == { k \in 1..Len(word_config) : word_config[k] = "/" }
        j == IF Slashes = {} THEN 0 ELSE CHOOSE k \in Slashes : \A m \in Slashes : m <= k
    IN  IF /\ word_config # << >>
           /\ word_config[1] = "/"
           /\ j >= 3
           /\ \A k \in (j + 1)..Len(word_config) : word_config[k] \in Range(LowerLetters)
        THEN [ok |-> TRUE, group1 |-> SubSeq(word_config, 2, j - 1)]
        ELSE [ok |-> FALSE, group1 |-> << >>]

\* lines 13-46. pattern stands for the compiled object: the text it was compiled from
ParseWord(word) ==
    LET has_arrow == Contains(word, Arrow)
        parts == IF has_arrow THEN SplitArrow(word) ELSE << word >>
        word_config == Strip(parts[1])
        display_name == IF has_arrow /\ Strip(parts[2]) # << >> THEN Strip(parts[2]) ELSE None
        regex_match == RegexMatch(word_config)
    IN  IF regex_match.ok /\ RegexCompiles(regex_match.group1)
        THEN [word |-> regex_match.group1, is_regex |-> TRUE,
              pattern |-> regex_match.group1, display_name |-> display_name]
        ELSE [word |-> word_config, is_regex |-> FALSE,
              pattern |-> None, display_name |-> display_name]

---------------------------------------------------------------------------
(* parse_frequency_rules (utils.py lines 48-141): the steps of its loop *)

Newline == << "\n" >>

BlankLine == << "\n", "\n" >>

GLOBAL_FILTER == << "G", "L", "O", "B", "A", "L", "_", "F", "I", "L", "T", "E", "R" >>

WORD_GROUPS == << "W", "O", "R", "D", "_", "G", "R", "O", "U", "P", "S" >>

SectionNames == { GLOBAL_FILTER, WORD_GROUPS }

\* lines 61-62
WordGroups(strs) ==
    LET Stripped(pieces) == [ i \in 1..Len(pieces) |-> Strip(pieces[i]) ]
        NotEmpty(g) == g # << >>
    IN  SelectSeq(Stripped(Split(Join(strs, BlankLine), BlankLine)), NotEmpty)

\* line 65
LinesOf(group) ==
    LET pieces == Split(group, Newline)
        stripped == [ i \in 1..Len(pieces) |-> Strip(pieces[i]) ]
        Kept(line) == line # << >> /\ ~StartsWith(line, << "#" >>)
    IN  SelectSeq(stripped, Kept)

\* line 70, line 87
IsBracketed(line) == StartsWith(line, << "[" >>) /\ line[Len(line)] = "]"

\* line[1:-1]
Inner(line) == SubSeq(line, 2, Len(line) - 1)

\* lines 70-72: the first line names a section
IsSectionHeader(lines) ==
    /\ lines # << >>
    /\ IsBracketed(lines[1])
    /\ Upper(Inner(lines[1])) \in SectionNames

\* bug: current_section set anew for every block
NextSectionOfBlock(section, lines) ==
    IF IsSectionHeader(lines) THEN Upper(Inner(lines[1])) ELSE WORD_GROUPS

\* lines 70-73: current_section after the header test
NextSection(section, lines) ==
    IF IsSectionHeader(lines) THEN Upper(Inner(lines[1])) ELSE section

\* line 74
AfterHeader(lines) == IF IsSectionHeader(lines) THEN Tail(lines) ELSE lines

\* lines 77-81
GlobalFilterLines(lines) ==
    LET IsReserved(line) ==
            \/ StartsWith(line, << "!" >>)
            \/ StartsWith(line, << "+" >>)
            \/ StartsWith(line, << "@" >>)
        Kept(line) == ~IsReserved(line) /\ line # << >>
    IN  SelectSeq(lines, Kept)

\* lines 87-89
HasAlias(words) ==
    /\ words # << >>
    /\ IsBracketed(words[1])
    /\ Upper(Strip(Inner(words[1]))) \notin SectionNames

\* lines 85-90
GroupAlias(words) == IF HasAlias(words) THEN Strip(Inner(words[1])) ELSE None

\* line 91
AfterAlias(words) == IF HasAlias(words) THEN Tail(words) ELSE words

\* lines 93-113: the lists and the count of a block, from st on
RECURSIVE ClassifyAll(_, _)
ClassifyAll(st, words) ==
    LET word == Head(words)
        count == IntOf(Tail(word))
        classified ==
            IF StartsWith(word, << "@" >>)
            THEN IF count.ok /\ count.val > 0 THEN [st EXCEPT !.max_count = count.val] ELSE st
            ELSE IF StartsWith(word, << "!" >>)
            THEN [st EXCEPT !.filters = Append(@, ParseWord(Tail(word)))]
            ELSE IF StartsWith(word, << "+" >>)
            THEN [st EXCEPT !.required = Append(@, ParseWord(Tail(word)))]
            ELSE [st EXCEPT !.normal = Append(@, ParseWord(word))]
    IN  IF words = << >> THEN st ELSE ClassifyAll(classified, Tail(words))

\* bug: a group for every block of the section, the test of line 115 left out
EmitsAlways(required, normal) == TRUE

\* line 115
Emits(required, normal) == required # << >> \/ normal # << >>

\* bug: the key made of the required words first
GroupKeyRequiredFirst(required, normal) ==
    LET WordsOf(tokens) == [ i \in 1..Len(tokens) |-> tokens[i].word ]
    IN  IF required # << >> THEN Join(WordsOf(required), << " " >>)
        ELSE Join(WordsOf(normal), << " " >>)

\* lines 116-119
GroupKey(required, normal) ==
    LET WordsOf(tokens) == [ i \in 1..Len(tokens) |-> tokens[i].word ]
    IN  IF normal # << >> THEN Join(WordsOf(normal), << " " >>)
        ELSE Join(WordsOf(required), << " " >>)

\* bug: the alias line read and then not used
DisplayNameWithoutAlias(group_alias, required, normal) ==
    LET all_words == normal \o required
        display_parts == [ i \in 1..Len(all_words) |->
                             IF all_words[i].display_name # None
                             THEN all_words[i].display_name ELSE all_words[i].word ]
    IN  IF display_parts # << >> THEN Join(display_parts, << " ", "/", " " >>) ELSE None

\* lines 121-129: `if group_alias` is false for None and for ""; `or` takes the word
\* when the token has no display_name
DisplayName(group_alias, required, normal) ==
    LET all_words == normal \o required
        display_parts == [ i \in 1..Len(all_words) |->
                             IF all_words[i].display_name # None
                             THEN all_words[i].display_name ELSE all_words[i].word ]
    IN  IF group_alias # None /\ group_alias # << >> THEN group_alias
        ELSE IF display_parts # << >> THEN Join(display_parts, << " ", "/", " " >>)
        ELSE None

\* lines 131-139
GroupOf(group_alias, st) ==
    [required |-> st.required,
     normal |-> st.normal,
     group_key |-> GroupKey(st.required, st.normal),
     display_name |-> DisplayName(group_alias, st.required, st.normal),
     max_count |-> st.max_count]

---------------------------------------------------------------------------
(* The inputs: the arguments of the call and what the storage may serve.   *)
(* Each world is one bounded family of inputs.                             *)

Worlds == { "dates", "days", "ranks", "times", "timeline", "filter", "faults", "rss", "service" }

Dash == << "-" >>

YearTexts == { << "2", "0", "2", "3" >>, << "2", "0", "2", "4" >> }

MonthTexts == { << "0", "2" >>, << "2" >>, << "1", "2" >>, << "1", "3" >>,
                << "0", "1" >>, << "0", "3" >>, << "0", "4" >>, << "0", "5" >> }

DayTexts == { << "2", "8" >>, << "2", "9" >>, << "3", "0" >>, << "3", "1" >>,
              << "0", "1" >>, << "1" >>, << "0", "0" >> }

\* strings that are not of the shape digits-digits-digits
OddDateStrings ==
    { << >>,
      << "2", "0", "2", "4", "/", "0", "2", "/", "2", "8" >>,
      << "2", "0", "2", "4", "-", "0", "2" >>,
      << "2", "4", "-", "0", "2", "-", "2", "8" >>,
      << "2", "0", "2", "4", "-", "0", "2", "-", "2", "8", "T" >> }

DateStrings ==
    { y \o Dash \o m \o Dash \o d : y \in YearTexts, m \in MonthTexts, d \in DayTexts }
    \cup OddDateStrings

FixedStart == << "2", "0", "2", "4", "-", "0", "2", "-", "2", "8" >>

FixedEnds ==
    { << "2", "0", "2", "4", "-", "0", "2", "-", "2", "8" >>,
      << "2", "0", "2", "4", "-", "0", "2", "-", "2", "9" >>,
      << "2", "0", "2", "4", "-", "0", "3", "-", "0", "1" >>,
      << "2", "0", "2", "4", "-", "0", "3", "-", "0", "2" >>,
      << "2", "0", "2", "4", "-", "0", "3", "-", "0", "3" >> }

\* the proleptic Gregorian ordinal of a date (day 1 is 0001-01-01)
RECURSIVE DaysBeforeMonth(_, _)
DaysBeforeMonth(y, m) == IF m = 1 THEN 0 ELSE DaysBeforeMonth(y, m - 1) + DaysInMonth(y, m - 1)

Ordinal(date) ==
    LET y == date[1] - 1
    IN  365 * y + (y \div 4) - (y \div 100) + (y \div 400) + DaysBeforeMonth(date[1], date[2]) + date[3]

\* the number of days of the range, 0 for a reversed one
Span(s, e) ==
    LET n == Ordinal(Strptime(e).date) - Ordinal(Strptime(s).date) + 1
    IN  IF n < 0 THEN 0 ELSE n

DatesValid(s, e) == Strptime(s).ok /\ Strptime(e).ok

DayBound(w) == IF w \in { "dates", "days" } THEN MaxDays ELSE MergeDays

\* the (start_date, end_date) pairs of a world: in "dates", every two strings that
\* parse and lie fewer than MaxDays days apart in either direction, and every string
\* that does not parse, as either bound or as both
DatePairs(w) ==
    IF w = "dates"
    THEN LET good == { x \in DateStrings : Strptime(x).ok }
             bad == DateStrings \ good
         IN  { pr \in good \X good :
                 /\ Ordinal(Strptime(pr[2]).date) - Ordinal(Strptime(pr[1]).date) < MaxDays
                 /\ Ordinal(Strptime(pr[1]).date) - Ordinal(Strptime(pr[2]).date) < MaxDays }
             \cup { << x, FixedStart >> : x \in bad }
             \cup { << FixedStart, x >> : x \in bad }
             \cup { << x, x >> : x \in bad }
    ELSE { pr \in { FixedStart } \X FixedEnds : Span(pr[1], pr[2]) <= DayBound(w) }

TitleAb == << "A", "b" >>

TitleCd == << "c", "d" >>

UrlOf(rank) == IF rank = 1 THEN "u1" ELSE "u2"

Mk(title, rank, ranks, count, crawl, first, last, timeline) ==
    [wf |-> TRUE, title |-> title, rank |-> rank, ranks |-> ranks, url |-> UrlOf(rank),
     mobile_url |-> "", count |-> count, crawl_time |-> crawl, first_time |-> first,
     last_time |-> last, rank_timeline |-> timeline]

Plain == Mk(TitleAb, 1, << >>, 1, 1, 0, 0, << >>)

\* an element of a news_list that is no TitleItem: reading item.title raises
Malformed == [Plain EXCEPT !.wf = FALSE]

Feed(source_id, news_list) == [source_id |-> source_id, news_list |-> news_list]

OneSource(news_list) ==
    [items |-> << Feed("s1", news_list) >>, id_to_name |-> ("s1" :> "n1")]

TwoSources(list1, list2) ==
    [items |-> << Feed("s1", list1), Feed("s2", list2) >>,
     id_to_name |-> ("s1" :> "n2") @@ ("s2" :> "n1")]

RankItems ==
    { Mk(TitleAb, r, << >>, 1, 1, 0, 0, << >>) : r \in 1..MaxRank }
    \cup { Mk(TitleAb, 1, rs, 1, 1, 0, 0, << >>) : rs \in SeqsUpTo(1..MaxRank, MaxRanksLen) \ { << >> } }

\* first_time <= crawl_time <= last_time whenever they are present
TimeItems ==
    { Mk(TitleAb, 1, << >>, 1, c, f, l, << >>) :
        c \in 1..MaxTime, f \in 0..MaxTime, l \in 0..MaxTime }
    \cap { it \in [wf : {TRUE}, title : {TitleAb}, rank : {1}, ranks : {<< >>}, url : {"u1"},
                   mobile_url : {""}, count : {1}, crawl_time : 1..MaxTime,
                   first_time : 0..MaxTime, last_time : 0..MaxTime, rank_timeline : {<< >>}] :
             /\ it.first_time <= it.crawl_time
             /\ (it.last_time = 0 \/ it.crawl_time <= it.last_time) }

TimelineItems ==
    { Mk(TitleAb, 1, << >>, n, 1, 0, 0, tl) :
        n \in 1..MaxCount, tl \in SeqsUpTo({ "e1", "e2" }, MaxTimelineLen) }

FilterItems == { Mk(t, 1, << >>, n, 1, 0, 0, << >>) : t \in { TitleAb, TitleCd }, n \in 1..MaxCount }

TitleSnapshots(w) ==
    CASE w = "dates" -> { OneSource(<< Plain >>) }
      [] w = "days" -> { [items |-> << >>, id_to_name |-> ("s1" :> "n1")],
                         OneSource(<< Plain >>),
                         OneSource(<< Mk(TitleAb, 2, << 2 >>, 1, 2, 1, 0, << "e1" >>) >>),
                         TwoSources(<< Mk(TitleCd, 1, << >>, 1, 1, 0, 0, << >>) >>, << Plain >>) }
      [] w = "ranks" -> { OneSource(<< it >>) : it \in RankItems }
      [] w = "times" -> { OneSource(<< it >>) : it \in TimeItems }
      [] w = "timeline" -> { OneSource(<< it >>) : it \in TimelineItems }
      [] w = "filter" -> { OneSource(l) : l \in SeqsUpTo(FilterItems, 1) }
                         \cup { TwoSources(l, << Plain >>) : l \in SeqsUpTo(FilterItems, 1) }
      [] w = "faults" -> { OneSource(l) : l \in SeqsUpTo({ Plain, Malformed }, MaxItems) \ { << >> } }
                         \cup { TwoSources(l, << Plain >>) :
                                  l \in SeqsUpTo({ Plain, Malformed }, MaxItems) \ { << >> } }
      [] w = "service" -> { [items |-> << >>, id_to_name |-> ("s1" :> "n1")],
                            OneSource(<< Plain >>),
                            TwoSources(<< Mk(TitleCd, 1, << >>, 1, 1, 0, 0, << >>) >>, << Plain >>) }

RssItem(title, feed_name) ==
    [wf |-> TRUE, title |-> title, url |-> "u1", feed_name |-> feed_name,
     published_at |-> "p1", summary |-> "x"]

\* MalformedRss is an element of a feed's list that is no RSS item: reading
\* item.title raises
RssSnapshots(w) ==
    LET MalformedRss == [RssItem(TitleAb, "") EXCEPT !.wf = FALSE]
    IN
    { [items |-> << Feed("f1", << RssItem(TitleAb, "") >>) >>, id_to_name |-> ("f1" :> "n1")],
      [items |-> << Feed("f1", << RssItem(TitleAb, "F one") >>),
                    Feed("f2", << RssItem(TitleCd, "") >>) >>,
       id_to_name |-> ("f1" :> "n1")] }
    \cup IF w # "rss" THEN {}
         ELSE { [items |-> << >>, id_to_name |-> EmptyMap],
                [items |-> << Feed("f1", << RssItem(TitleCd, ""), MalformedRss,
                                            RssItem(TitleAb, "") >>),
                              Feed("f2", << RssItem(TitleAb, "F two") >>) >>,
                 id_to_name |-> EmptyMap] }

AnyIds == [none |-> TRUE, ids |-> {}]

OnlyIds(S) == [none |-> FALSE, ids |-> S]

Args(ids, q, p) == [ids |-> ids, query |-> q, regex |-> p]

\* the call of _fetch_local_news: allowed_sources, then True in the place of query
FetchLocalNews(allowed_sources) == Args(allowed_sources, TrueValue, << >>)

\* the (current_platform_ids, query, include_regex) of a world
ArgSets(w) ==
    IF w = "filter"
    THEN { Args(ids, << >>, << >>) : ids \in { AnyIds, OnlyIds({}), OnlyIds({ "s1" }) } }
         \cup { Args(AnyIds, q, p) : q \in { << >>, << "A", "B" >> },
                                     p \in { << >>, << "c", "." >>, << "[" >> } }
    ELSE IF w = "rss"
    THEN { Args(ids, << >>, << >>) : ids \in { AnyIds, OnlyIds({}), OnlyIds({ "f1" }) } }
         \cup { Args(AnyIds, q, p) : q \in { << >>, << "A", "B" >> },
                                     p \in { << >>, << "c", "." >>, << "[" >> } }
    ELSE IF w = "service"
    THEN { FetchLocalNews(ids) : ids \in { AnyIds, OnlyIds({}), OnlyIds({ "s1" }) } }
    ELSE { Args(AnyIds, << >>, << >>) }

Fns(w) == IF w = "dates" THEN { "titles", "rss" } ELSE IF w = "rss" THEN { "rss" } ELSE { "titles" }

Answer(kind, snap) == [kind |-> kind, snap |-> snap, stop |-> << 0, 0 >>]

\* the rule documents: a stream of lines, a DocBreak ending one document of
\* rule_strings and beginning the next; the lines of a document are joined by "\n"
DocBreak == << "BREAK" >>

RECURSIVE DocsFrom(_, _)
DocsFrom(stream, cur) ==
    IF stream = << >> THEN << Join(cur, Newline) >>
    ELSE IF Head(stream) = DocBreak THEN << Join(cur, Newline) >> \o DocsFrom(Tail(stream), << >>)
    ELSE DocsFrom(Tail(stream), Append(cur, Head(stream)))

SectionLines ==
    { << "[", "G", "L", "O", "B", "A", "L", "_", "F", "I", "L", "T", "E", "R", "]" >>, << "[", "w", "o", "r", "d", "_", "g", "r", "o", "u", "p", "s", "]" >>, << "x" >>, << "!", "c" >>, << "#", "n" >>, DocBreak }

\* the empty line makes a blank line inside a document
GroupLines ==
    { << "[", "T", "e", "c", "h", " ", "N", "e", "w", "s", "]" >>, << "a", "i" >>, << "c", "h", "i", "p" >>, << "+", "b" >>, << "!", "c" >>, << "@", "2" >>, << >> }

WordLines ==
    { << "a", "i", "=", ">", "N" >>, << "+", "b", " ", "=", ">", " ", "M" >>, << "/", "a", ".", "/" >>, << "/", "[", "/", "=", ">", "R" >>, << "!", "/", "c", "/", "i" >>, << " " >>, << "=", ">" >>,
      << "+" >>, << "@", "x" >>, << "@", " ", "3" >>, << "@", "0" >>, << "@", "-", "1" >>, << "[", "]" >>, << "[", " ", "W", "O", "R", "D", "_", "G", "R", "O", "U", "P", "S", " ", "]" >> }

\* the rule_strings of a world, the empty list among them
RuleStrings(w) ==
    LET RuleLines == IF w = "sections" THEN SectionLines
                     ELSE IF w = "groups" THEN GroupLines ELSE WordLines
        LineBound == IF w = "words" THEN MaxWords ELSE MaxLines
    IN  { DocsFrom(st, << >>) : st \in SeqsUpTo(RuleLines, LineBound) } \cup { << >> }

---------------------------------------------------------------------------
(* The state machine *)

InitIn(W) ==
    /\ world \in W
    /\ fn \in Fns(world)
    /\ \E pr \in DatePairs(world) : start_date = pr[1] /\ end_date = pr[2]
    /\ \E a \in ArgSets(world) :
         current_platform_ids = a.ids /\ query = a.query /\ include_regex = a.regex
    /\ pc = "start"
    /\ current = << 0, 0, 0 >>
    /\ end = << 0, 0, 0 >>
    /\ news_data = NoSnapshot
    /\ source_pos = 0
    /\ item_pos = 0
    /\ aggregated_results = EmptyMap
    /\ aggregated_title_info = EmptyMap
    /\ final_id_to_name = EmptyMap
    /\ heap = EmptyHeap
    /\ rss_items = << >>
    /\ ret = << >>
    /\ requests = << >>
    /\ served = << >>
    /\ rule_strings = << >>
    /\ word_groups = << >>
    /\ group_pos = 0
    /\ current_section = WORD_GROUPS
    /\ processed_groups = << >>
    /\ filter_words = << >>
    /\ global_filters = << >>
    /\ service = FALSE
    /\ request = [rules |-> << >>, preset |-> None, stream |-> FALSE]
    /\ exc = [type |-> "none", status_code |-> 0, detail |-> ""]
    /\ response = [status_code |-> 0, detail |-> ""]
    /\ started = << >>

Init == InitIn(Worlds)

\* the worlds that vary the range and make every step of both functions happen
RangeWorlds == { "dates", "filter", "faults" }

InitRange == InitIn(RangeWorlds)

args == << world, fn, start_date, end_date, current_platform_ids, query, include_regex >>

accs == << aggregated_results, aggregated_title_info, final_id_to_name, heap >>

Acc == [results |-> aggregated_results, info |-> aggregated_title_info,
        names |-> final_id_to_name, heap |-> heap]

SetAcc(a) ==
    /\ aggregated_results' = a.results
    /\ aggregated_title_info' = a.info
    /\ final_id_to_name' = a.names
    /\ heap' = a.heap

\* bug: no handler around strptime, the ValueError leaves the function
ParseDatesUncaught ==
    /\ pc = "start"
    /\ IF Strptime(start_date).ok /\ Strptime(end_date).ok
       THEN /\ current' = Strptime(start_date).date
            /\ end' = Strptime(end_date).date
            /\ pc' = "loop"
       ELSE /\ pc' = "raised"
            /\ UNCHANGED << current, end >>
    /\ UNCHANGED << args, rules, api, accs, news_data, source_pos, item_pos, rss_items, ret, requests, served >>

\* lines 28-32 and 122-124; lines 141-145 and 183-185
ParseDates ==
    /\ pc = "start"
    /\ IF Strptime(start_date).ok /\ Strptime(end_date).ok
       THEN /\ current' = Strptime(start_date).date
            /\ end' = Strptime(end_date).date
            /\ pc' = "loop"
            /\ ret' = ret
       ELSE /\ pc' = "done"
            /\ ret' = IF fn = "titles" THEN << EmptyMap, EmptyMap, EmptyMap >> ELSE << << >> >>
            /\ UNCHANGED << current, end >>
    /\ UNCHANGED << args, rules, api, accs, news_data, source_pos, item_pos, rss_items, requests, served >>

\* line 33 false, then line 120; line 146 false, then line 181
LoopExit ==
    /\ pc = "loop"
    /\ ~DateLeq(current, end)
    /\ pc' = "done"
    /\ ret' = IF fn = "titles"
              THEN << aggregated_results, final_id_to_name, aggregated_title_info >>
              ELSE << rss_items >>
    /\ UNCHANGED << args, rules, api, accs, current, end, news_data, source_pos, item_pos, rss_items,
                    requests, served >>

\* lines 34-40: storage_manager.get_today_all_data(date_str) is called
Request(answer) ==
    /\ pc = "loop"
    /\ DateLeq(current, end)
    /\ requests' = Append(requests, Strftime(current))
    /\ served' = Append(served, answer)

\* bug: no handler inside the loop, the outer one (lines 122-124) ends the call
GetDayRaisesUncaught ==
    /\ fn = "titles"
    /\ Request(Answer("raise", NoSnapshot))
    /\ pc' = "done"
    /\ ret' = << EmptyMap, EmptyMap, EmptyMap >>
    /\ UNCHANGED << args, rules, api, accs, current, end, news_data, source_pos, item_pos, rss_items >>

\* line 40 raises; lines 114-118
GetDayRaises ==
    /\ fn = "titles"
    /\ Request(Answer("raise", NoSnapshot))
    /\ current' = NextDay(current)
    /\ pc' = "loop"
    /\ UNCHANGED << args, rules, api, accs, end, news_data, source_pos, item_pos, rss_items, ret >>

\* lines 40-43: None, or a snapshot without items
GetDayNoData ==
    /\ fn = "titles"
    /\ \E answer \in { Answer("none", NoSnapshot) }
                     \cup { Answer("data", snap) : snap \in { x \in TitleSnapshots(world) : x.items = << >> } } :
         /\ Request(answer)
         /\ news_data' = answer.snap
    /\ current' = NextDay(current)
    /\ pc' = "loop"
    /\ UNCHANGED << args, rules, api, accs, end, source_pos, item_pos, rss_items, ret >>

\* lines 40-46
GetDayData ==
    /\ fn = "titles"
    /\ \E snap \in { x \in TitleSnapshots(world) : x.items # << >> } :
         /\ Request(Answer("data", snap))
         /\ news_data' = snap
         /\ SetAcc(MergeNames(Acc, snap.id_to_name))
    /\ source_pos' = 1
    /\ pc' = "sources"
    /\ UNCHANGED << args, rules, api, current, end, item_pos, rss_items, ret >>

\* line 48 exhausted, then line 118
DayDone ==
    /\ pc = "sources"
    /\ source_pos > Len(news_data.items)
    /\ current' = NextDay(current)
    /\ pc' = "loop"
    /\ UNCHANGED << args, rules, api, accs, end, news_data, source_pos, item_pos, rss_items, ret,
                    requests, served >>

\* lines 48-50
SourceExcluded ==
    /\ pc = "sources"
    /\ source_pos <= Len(news_data.items)
    /\ Excluded(current_platform_ids, news_data.items[source_pos].source_id)
    /\ source_pos' = source_pos + 1
    /\ UNCHANGED << args, rules, api, accs, pc, current, end, news_data, item_pos, rss_items, ret,
                    requests, served >>

\* lines 48-56
SourceEntered ==
    /\ pc = "sources"
    /\ source_pos <= Len(news_data.items)
    /\ ~Excluded(current_platform_ids, news_data.items[source_pos].source_id)
    /\ SetAcc(EnterSource(Acc, news_data.items[source_pos].source_id))
    /\ item_pos' = 1
    /\ pc' = "items"
    /\ UNCHANGED << args, rules, api, current, end, news_data, source_pos, rss_items, ret, requests, served >>

CurrentSource == news_data.items[source_pos].source_id

CurrentList == news_data.items[source_pos].news_list

CurrentOutcome ==
    ItemOutcome(Acc, CurrentSource, CurrentList[item_pos], query, include_regex)

\* line 56 exhausted: back to line 48
ItemsDone ==
    /\ pc = "items"
    /\ item_pos > Len(CurrentList)
    /\ source_pos' = source_pos + 1
    /\ pc' = "sources"
    /\ UNCHANGED << args, rules, api, accs, current, end, news_data, item_pos, rss_items, ret,
                    requests, served >>

\* line 57 or line 67 raises; lines 114-118
ItemRaises ==
    /\ pc = "items"
    /\ item_pos <= Len(CurrentList)
    /\ CurrentOutcome = "raise"
    /\ served' = [served EXCEPT ![Len(served)].stop = << source_pos, item_pos >>]
    /\ current' = NextDay(current)
    /\ pc' = "loop"
    /\ UNCHANGED << args, rules, api, accs, end, news_data, source_pos, item_pos, rss_items, ret, requests >>

\* lines 60-68: continue
ItemSkipped ==
    /\ pc = "items"
    /\ item_pos <= Len(CurrentList)
    /\ CurrentOutcome = "skip"
    /\ item_pos' = item_pos + 1
    /\ UNCHANGED << args, rules, api, accs, pc, current, end, news_data, source_pos, rss_items, ret,
                    requests, served >>

\* lines 71, 94-112
ItemNew ==
    /\ pc = "items"
    /\ item_pos <= Len(CurrentList)
    /\ CurrentOutcome = "new"
    /\ SetAcc(VisitItem(Acc, CurrentSource, CurrentList[item_pos], query, include_regex))
    /\ item_pos' = item_pos + 1
    /\ UNCHANGED << args, rules, api, pc, current, end, news_data, source_pos, rss_items, ret,
                    requests, served >>

\* lines 71-92
ItemRepeat ==
    /\ pc = "items"
    /\ item_pos <= Len(CurrentList)
    /\ CurrentOutcome = "repeat"
    /\ SetAcc(VisitItem(Acc, CurrentSource, CurrentList[item_pos], query, include_regex))
    /\ item_pos' = item_pos + 1
    /\ UNCHANGED << args, rules, api, pc, current, end, news_data, source_pos, rss_items, ret,
                    requests, served >>

\* lines 147-179: one day of get_rss_by_date_range
RssDay ==
    /\ fn = "rss"
    /\ \E answer \in { Answer("raise", NoSnapshot), Answer("none", NoSnapshot) }
                     \cup { Answer("data", snap) : snap \in RssSnapshots(world) } :
         /\ Request(answer)
         /\ rss_items' = CollectDay(rss_items, answer, current_platform_ids, query, include_regex)
    /\ current' = NextDay(current)
    /\ pc' = "loop"
    /\ UNCHANGED << args, rules, api, accs, end, news_data, source_pos, item_pos, ret >>

Next ==
    \/ ParseDates
    \/ LoopExit
    \/ GetDayRaises
    \/ GetDayNoData
    \/ GetDayData
    \/ DayDone
    \/ SourceExcluded
    \/ SourceEntered
    \/ ItemsDone
    \/ ItemRaises
    \/ ItemSkipped
    \/ ItemNew
    \/ ItemRepeat
    \/ RssDay

Spec == Init /\ [][Next]_vars

---------------------------------------------------------------------------
(* parse_frequency_rules as a state machine: one step per block *)

\* lines 54-58
InitRules ==
    /\ world \in { "sections", "groups", "words" }
    /\ fn = "rules"
    /\ rule_strings \in RuleStrings(world)
    /\ word_groups = << >>
    /\ group_pos = 0
    /\ current_section = WORD_GROUPS
    /\ processed_groups = << >>
    /\ filter_words = << >>
    /\ global_filters = << >>
    /\ service = FALSE
    /\ request = [rules |-> << >>, preset |-> None, stream |-> FALSE]
    /\ exc = [type |-> "none", status_code |-> 0, detail |-> ""]
    /\ response = [status_code |-> 0, detail |-> ""]
    /\ started = << >>
    /\ pc = "rules"
    /\ start_date = << >> /\ end_date = << >>
    /\ current_platform_ids = AnyIds /\ query = << >> /\ include_regex = << >>
    /\ current = << 0, 0, 0 >>
    /\ end = << 0, 0, 0 >>
    /\ news_data = NoSnapshot
    /\ source_pos = 0
    /\ item_pos = 0
    /\ aggregated_results = EmptyMap
    /\ aggregated_title_info = EmptyMap
    /\ final_id_to_name = EmptyMap
    /\ heap = EmptyHeap
    /\ rss_items = << >>
    /\ ret = << >>
    /\ requests = << >>
    /\ served = << >>

calls == << accs, current, end, news_data, source_pos, item_pos, rss_items, requests, served >>

\* lines 60-62
SplitGroups ==
    /\ pc = "rules"
    /\ word_groups' = WordGroups(rule_strings)
    /\ group_pos' = 1
    /\ pc' = "groups"
    /\ UNCHANGED << args, calls, api, ret, rule_strings, current_section, processed_groups,
                    filter_words, global_filters >>

\* line 65 for the block the loop is at
CurrentLines == LinesOf(word_groups[group_pos])

\* lines 84-113 for the block the loop is at, current_section being WORD_GROUPS
CurrentWords ==
    ClassifyAll([required |-> << >>, normal |-> << >>, max_count |-> 0, filters |-> << >>],
                AfterAlias(AfterHeader(CurrentLines)))

\* lines 64-68: a block of comments
GroupWithoutLines ==
    /\ pc = "groups"
    /\ group_pos <= Len(word_groups)
    /\ CurrentLines = << >>
    /\ group_pos' = group_pos + 1
    /\ UNCHANGED << args, calls, api, pc, ret, rule_strings, word_groups, current_section,
                    processed_groups, filter_words, global_filters >>

\* lines 64-82
GroupInGlobalFilter ==
    /\ pc = "groups"
    /\ group_pos <= Len(word_groups)
    /\ CurrentLines # << >>
    /\ NextSection(current_section, CurrentLines) = GLOBAL_FILTER
    /\ current_section' = NextSection(current_section, CurrentLines)
    /\ global_filters' = global_filters \o GlobalFilterLines(AfterHeader(CurrentLines))
    /\ group_pos' = group_pos + 1
    /\ UNCHANGED << args, calls, api, pc, ret, rule_strings, word_groups, processed_groups,
                    filter_words >>

\* lines 64-115: no required and no normal word, no group
GroupWithoutWords ==
    /\ pc = "groups"
    /\ group_pos <= Len(word_groups)
    /\ CurrentLines # << >>
    /\ NextSection(current_section, CurrentLines) # GLOBAL_FILTER
    /\ ~Emits(CurrentWords.required, CurrentWords.normal)
    /\ current_section' = NextSection(current_section, CurrentLines)
    /\ filter_words' = filter_words \o CurrentWords.filters
    /\ group_pos' = group_pos + 1
    /\ UNCHANGED << args, calls, api, pc, ret, rule_strings, word_groups, processed_groups,
                    global_filters >>

\* lines 64-139
GroupEmitted ==
    /\ pc = "groups"
    /\ group_pos <= Len(word_groups)
    /\ CurrentLines # << >>
    /\ NextSection(current_section, CurrentLines) # GLOBAL_FILTER
    /\ Emits(CurrentWords.required, CurrentWords.normal)
    /\ current_section' = NextSection(current_section, CurrentLines)
    /\ filter_words' = filter_words \o CurrentWords.filters
    /\ processed_groups' =
         Append(processed_groups,
                GroupOf(GroupAlias(AfterHeader(CurrentLines)), CurrentWords))
    /\ group_pos' = group_pos + 1
    /\ UNCHANGED << args, calls, api, pc, ret, rule_strings, word_groups, global_filters >>

\* line 64 exhausted, then line 141
RulesReturn ==
    /\ pc = "groups"
    /\ group_pos > Len(word_groups)
    /\ pc' = "done"
    /\ ret' = << processed_groups, filter_words, global_filters >>
    /\ UNCHANGED << args, calls, api, rules >>

NextRules ==
    \/ SplitGroups
    \/ GroupWithoutLines
    \/ GroupInGlobalFilter
    \/ GroupWithoutWords
    \/ GroupEmitted
    \/ RulesReturn

RulesSpec == InitRules /\ [][NextRules]_vars


---------------------------------------------------------------------------
(* create_briefing (main.py lines 133-183) as a state machine *)

\* lines 57-66: rules is a list of strings, [] by default; preset a string or None;
\* the service is initialized by lifespan (line 37) or still None (line 23)
InitBriefing ==
    /\ world = "briefing"
    /\ fn = "create_briefing"
    /\ service \in BOOLEAN
    /\ request \in [rules : { << >>, << << "a", "i" >> >>, << << "+", "b" >> >>,
                              << << "a", "i" >>, << "c", "h", "i", "p" >> >> },
                     preset : { None, << >>, << "t", "e", "c", "h" >> },
                     stream : BOOLEAN]
    /\ exc = [type |-> "none", status_code |-> 0, detail |-> ""]
    /\ response = [status_code |-> 0, detail |-> ""]
    /\ started = << >>
    /\ pc = "handler"
    /\ start_date = << >> /\ end_date = << >>
    /\ current_platform_ids = AnyIds /\ query = << >> /\ include_regex = << >>
    /\ current = << 0, 0, 0 >>
    /\ end = << 0, 0, 0 >>
    /\ news_data = NoSnapshot
    /\ source_pos = 0
    /\ item_pos = 0
    /\ aggregated_results = EmptyMap
    /\ aggregated_title_info = EmptyMap
    /\ final_id_to_name = EmptyMap
    /\ heap = EmptyHeap
    /\ rss_items = << >>
    /\ ret = << >>
    /\ requests = << >>
    /\ served = << >>
    /\ rule_strings = << >>
    /\ word_groups = << >>
    /\ group_pos = 0
    /\ current_section = WORD_GROUPS
    /\ processed_groups = << >>
    /\ filter_words = << >>
    /\ global_filters = << >>

\* lines 141-142: raised before the try block, so it reaches the client as it is
ServiceMissing ==
    /\ pc = "handler"
    /\ ~service
    /\ response' = [status_code |-> 503, detail |-> "Service not initialized"]
    /\ pc' = "done"
    /\ UNCHANGED << args, calls, rules, ret, service, request, exc, started >>

\* lines 144-147: `not request.rules` holds for [], `not request.preset` for None
\* and for ""; the HTTPException is raised inside the try block
RaiseBadRequest ==
    /\ pc = "handler"
    /\ service
    /\ request.rules = << >> /\ request.preset \in { None, << >> }
    /\ exc' = [type |-> "HTTPException", status_code |-> 400,
               detail |-> "Must provide either 'rules' or 'preset'"]
    /\ pc' = "except"
    /\ UNCHANGED << args, calls, rules, ret, service, request, response, started >>

\* lines 149-161 and 169-177, service.py lines 56-62: generate_briefing is entered
\* and fetches the data, which returns or raises
FetchBriefingData ==
    /\ pc = "handler"
    /\ service
    /\ ~(request.rules = << >> /\ request.preset \in { None, << >> })
    /\ started' = Append(started, "fetch_briefing_data")
    /\ \E raises \in BOOLEAN :
         IF raises
         THEN /\ exc' = [type |-> "Exception", status_code |-> 0, detail |-> "fetch failed"]
              /\ pc' = "except"
         ELSE /\ exc' = exc
              /\ pc' = "fetched"
    /\ UNCHANGED << args, calls, rules, ret, service, request, response >>

\* service.py lines 66-72, main.py lines 163-166 and 179: the AI analysis, which
\* returns (the handler answers with the stream or with the result) or raises
AnalyzeBriefingData ==
    /\ pc = "fetched"
    /\ started' = Append(started, "analyze_briefing_data")
    /\ \E raises \in BOOLEAN :
         IF raises
         THEN /\ exc' = [type |-> "Exception", status_code |-> 0, detail |-> "analysis failed"]
              /\ pc' = "except"
              /\ response' = response
         ELSE /\ exc' = exc
              /\ pc' = "done"
              /\ response' = [status_code |-> 200,
                              detail |-> IF request.stream THEN "text/event-stream" ELSE "result"]
    /\ UNCHANGED << args, calls, rules, ret, service, request >>

\* lines 181-183: `except Exception` catches whatever the try block raised, the
\* HTTPException of line 147 too (HTTPException is a subclass of Exception), and
\* raises HTTPException(500), its detail the str() of the caught exception
ExceptException ==
    /\ pc = "except"
    /\ response' = [status_code |-> 500, detail |-> "str(e)"]
    /\ pc' = "done"
    /\ UNCHANGED << args, calls, rules, ret, service, request, exc, started >>

NextBriefing ==
    \/ ServiceMissing
    \/ RaiseBadRequest
    \/ FetchBriefingData
    \/ AnalyzeBriefingData
    \/ ExceptException

BriefingSpec == InitBriefing /\ [][NextBriefing]_vars

---------------------------------------------------------------------------
(* What the claims speak about *)

\* the (source, title) pairs of title_records
Records == UNION { { << s, t >> : t \in DOMAIN aggregated_title_info[s] } :
                   s \in DOMAIN aggregated_title_info }

RecordOf(r) == aggregated_title_info[r[1]][r[2]]

RanksOf(r) == heap.ranks[RecordOf(r).ranks].val

TimelineOf(r) == heap.timeline[RecordOf(r).rank_timeline].val

ResultRanksOf(r) == heap.ranks[aggregated_results[r[1]][r[2]].ranks].val

\* how far the k-th served day has been read: the position of the first element not
\* yet visited (the raising element, when the day ended in the exception handler)
Frontier(k) ==
    IF served[k].stop # << 0, 0 >> THEN served[k].stop
    ELSE IF k = Len(served) /\ pc = "sources" THEN << source_pos, 1 >>
    ELSE IF k = Len(served) /\ pc = "items" THEN << source_pos, item_pos >>
    ELSE << Len(served[k].snap.items) + 1, 1 >>

RECURSIVE VisitedInDay(_, _, _)
VisitedInDay(k, j, i) ==
    LET its == served[k].snap.items
        f == Frontier(k)
    IN  IF j > Len(its) \/ j > f[1] \/ (j = f[1] /\ i >= f[2]) THEN << >>
        ELSE IF i > Len(its[j].news_list) THEN VisitedInDay(k, j + 1, 1)
        ELSE << [source_id |-> its[j].source_id, item |-> its[j].news_list[i]] >>
             \o VisitedInDay(k, j, i + 1)

\* every element the loops have visited so far, in visit order
RECURSIVE VisitedFrom(_)
VisitedFrom(k) == IF k > Len(served) THEN << >> ELSE VisitedInDay(k, 1, 1) \o VisitedFrom(k + 1)

Allowed(source_id) == current_platform_ids.none \/ source_id \in current_platform_ids.ids

TitleHasQuery(title) == query = << >> \/ Contains(Lower(title), Lower(query))

TitleHasRegex(title) == include_regex = << >> \/ RegexSearch(include_regex, title)

\* the observations of record r: the visited items of that title in that source,
\* the source allowed and the title passing both filters, in visit order
Observations(r) ==
    LET IsObs(e) == /\ e.source_id = r[1]
                    /\ e.item.wf
                    /\ e.item.title = r[2]
                    /\ Allowed(e.source_id)
                    /\ TitleHasQuery(e.item.title)
                    /\ TitleHasRegex(e.item.title)
    IN  SelectSeq(VisitedFrom(1), IsObs)

RECURSIVE SumCounts(_)
SumCounts(obs) == IF obs = << >> THEN 0 ELSE Head(obs).item.count + SumCounts(Tail(obs))

RECURSIVE ConcatTimelines(_)
ConcatTimelines(obs) ==
    IF obs = << >> THEN << >> ELSE Head(obs).item.rank_timeline \o ConcatTimelines(Tail(obs))

RECURSIVE ConcatRanks(_)
ConcatRanks(obs) ==
    IF obs = << >> THEN << >>
    ELSE (IF Head(obs).item.ranks # << >> THEN Head(obs).item.ranks ELSE << Head(obs).item.rank >>)
         \o ConcatRanks(Tail(obs))

\* s without the later repeats of a value
RECURSIVE FirstSeen(_)
FirstSeen(s) ==
    IF s = << >> THEN << >>
    ELSE LET init == FirstSeen(SubSeq(s, 1, Len(s) - 1))
         IN  IF s[Len(s)] \in Range(init) THEN init ELSE Append(init, s[Len(s)])

EffFirst(item) == IF item.first_time = 0 THEN item.crawl_time ELSE item.first_time

EffLast(item) == IF item.last_time = 0 THEN item.crawl_time ELSE item.last_time

Returned == pc = "done" /\ fn = "titles" /\ DatesValid(start_date, end_date)

\* the storage answers with every raising retrieval replaced by "no data"
RaisesAsNoData ==
    [ k \in 1..Len(served) |->
        IF served[k].kind = "raise" THEN Answer("none", NoSnapshot) ELSE served[k] ]

\* the storage answers with every day whose processing raised replaced by "no data"
FailedDaysAsNoData ==
    [ k \in 1..Len(served) |->
        IF served[k].stop # << 0, 0 >> THEN Answer("none", NoSnapshot) ELSE served[k] ]

ReturnOf(acc) == << acc.results, acc.names, acc.info >>

---------------------------------------------------------------------------
(* C1: whatever days' retrieval raises, get_titles_by_date_range returns   *)
(* normally, and returns exactly what it returns when those days yield no  *)
(* data: the merge of the other days in chronological order.               *)
C1_RaisingDaysAreNoData ==
    /\ pc # "raised"
    /\ Returned =>
         LET expected == RunDays(EmptyAcc, RaisesAsNoData, 1, current_platform_ids,
                                 query, include_regex)
         IN  ret = ReturnOf(expected) /\ heap = expected.heap

\* a 3-day range whose second day raised and whose first and third day were merged
C1_Witness ==
    /\ Returned
    /\ Len(served) = 3
    /\ served[1].kind = "data" /\ served[2].kind = "raise" /\ served[3].kind = "data"
    /\ \E r \in Records : Len(Observations(r)) = 2

(* C2: the count of every record is the sum of the count of each of its    *)
(* observations (the visited items of that title in that allowed source    *)
(* that passed the query and regex filters), each counted exactly once.    *)
C2_CountIsSumOfObservations ==
    \A r \in Records : RecordOf(r).count = SumCounts(Observations(r))

\* a record merged from two observations while another visited item was filtered out
C2_Witness ==
    /\ \E r \in Records : Len(Observations(r)) >= 2 /\ RecordOf(r).count >= 3
    /\ \E i \in 1..Len(VisitedFrom(1)) :
         LET e == VisitedFrom(1)[i]
         IN  e.item.wf /\ (~Allowed(e.source_id) \/ ~TitleHasQuery(e.item.title))

(* C3: the ranks of every record hold no value twice and list the rank     *)
(* values in first-seen order, also when an item's own ranks list repeats  *)
(* a value.                                                                *)
C3_RanksFirstSeenNoDuplicates ==
    \A r \in Records :
        /\ NoDuplicates(RanksOf(r))
        /\ RanksOf(r) = FirstSeen(ConcatRanks(Observations(r)))

C5_TimesAreMinAndMax ==
    \A r \in Records :
        LET obs == Observations(r)
        IN  /\ \E i \in 1..Len(obs) : RecordOf(r).first_time = EffFirst(obs[i].item)
            /\ \A i \in 1..Len(obs) : RecordOf(r).first_time <= EffFirst(obs[i].item)
            /\ \E i \in 1..Len(obs) : RecordOf(r).last_time = EffLast(obs[i].item)
            /\ \A i \in 1..Len(obs) : RecordOf(r).last_time >= EffLast(obs[i].item)

\* times T2 merged first, then T1 < T2 < T3: the record spans T1..T3
C5_Witness ==
    \E r \in Records :
        /\ Len(Observations(r)) = 2
        /\ EffFirst(Observations(r)[1].item) = 2 /\ EffLast(Observations(r)[1].item) = 2
        /\ EffFirst(Observations(r)[2].item) = 1 /\ EffLast(Observations(r)[2].item) = 3
        /\ RecordOf(r).first_time = 1 /\ RecordOf(r).last_time = 3

\* rank_timeline is what its observations carried, one after the other
C6_TimelineIsConcatenation ==
    \A r \in Records : TimelineOf(r) = ConcatTimelines(Observations(r))

(* C6: rank_timeline only grows at its end: each step leaves the previous  *)
(* rank_timeline as a prefix of the new one, and it is the concatenation,  *)
(* in visit order, of the rank_timeline of every observation of the        *)
(* record, nothing removed; an item served twice doubles count and the     *)
(* rank_timeline length and leaves ranks as they were.                     *)
C6_TimelineAppendOnly ==
    /\ []C6_TimelineIsConcatenation
    /\ [][\A r \in Records : IsPrefix(TimelineOf(r), TimelineOf(r)')]_vars

\* the same item merged on two days
C6_Witness ==
    \E r \in Records :
        LET obs == Observations(r)
        IN  /\ Len(obs) = 2
            /\ obs[1].item = obs[2].item
            /\ obs[1].item.rank_timeline # << >>
            /\ RecordOf(r).count = 2 * obs[1].item.count
            /\ Len(TimelineOf(r)) = 2 * Len(obs[1].item.rank_timeline)
            /\ RanksOf(r) = << obs[1].item.rank >>

SeedRanks(item) == IF item.ranks # << >> THEN item.ranks ELSE << item.rank >>

(* C7 as stated: the ranks of results[source][title] stay the ranks seeded *)
(* at the first observation of the pair.                                   *)
C7_ProjectionRanksFrozen ==
    \A r \in Records : ResultRanksOf(r) = SeedRanks(Observations(r)[1].item)

(* C7 as amended: results[source][title] is created at the first           *)
(* observation and keeps the url and mobileUrl of that observation, but    *)
(* its ranks is the very list of title_records[source][title], so at every *)
(* point it equals the record's ranks, later additions included.           *)
C7_ProjectionSharesRanks ==
    /\ DOMAIN aggregated_results = DOMAIN aggregated_title_info
    /\ \A s \in DOMAIN aggregated_results :
         DOMAIN aggregated_results[s] = DOMAIN aggregated_title_info[s]
    /\ \A r \in Records :
         /\ aggregated_results[r[1]][r[2]].ranks = RecordOf(r).ranks
         /\ ResultRanksOf(r) = RanksOf(r)
         /\ aggregated_results[r[1]][r[2]].url = Observations(r)[1].item.url
         /\ aggregated_results[r[1]][r[2]].mobileUrl = Observations(r)[1].item.mobile_url

\* a repeat observation with another url added a rank value, seen through results
C7_Witness ==
    \E r \in Records :
        LET obs == Observations(r)
        IN  /\ Len(obs) = 2
            /\ obs[2].item.url # obs[1].item.url
            /\ RanksOf(r) # SeedRanks(obs[1].item)
            /\ ResultRanksOf(r) = RanksOf(r)
            /\ aggregated_results[r[1]][r[2]].url = obs[1].item.url

(* C8: a day whose processing raises after the snapshot was retrieved      *)
(* counts as a day without data: the call returns what it returns when     *)
(* that day yields no data.                                                *)
C8_FailedDayIsNoData ==
    Returned =>
        LET expected == RunDays(EmptyAcc, FailedDaysAsNoData, 1, current_platform_ids,
                                query, include_regex)
        IN  ret = ReturnOf(expected) /\ heap = expected.heap

EmptyReturn == IF fn = "titles" THEN << EmptyMap, EmptyMap, EmptyMap >> ELSE << << >> >>

\* the i-th day of the range, as the storage is asked for it
RequestIsDay(i) ==
    /\ Len(requests[i]) = 10
    /\ Strptime(requests[i]).ok
    /\ Ordinal(Strptime(requests[i]).date) = Ordinal(Strptime(start_date).date) + i - 1

\* the requests made so far are the first days of the range, one request per day
C9_RequestsAreTheRange ==
    DatesValid(start_date, end_date) =>
        /\ Len(requests) <= Span(start_date, end_date)
        /\ Len(served) = Len(requests)
        /\ \A i \in 1..Len(requests) : RequestIsDay(i)
        /\ pc = "done" => Len(requests) = Span(start_date, end_date)
        /\ pc = "done" /\ Span(start_date, end_date) = 0 => ret = EmptyReturn

(* C9: for date bounds that parse, both functions end, having asked the    *)
(* storage for each day of start_date..end_date once, in increasing order, *)
(* whatever the days answer; a reversed range asks for nothing and returns *)
(* an empty result.                                                        *)
C9_EveryDayOnceInOrder ==
    /\ []C9_RequestsAreTheRange
    /\ <>(pc = "done")

\* three days over the leap day, answered by data, an exception and no data
C9_Witness ==
    /\ pc = "done"
    /\ Len(requests) = 3
    /\ requests[2] = << "2", "0", "2", "4", "-", "0", "2", "-", "2", "9" >>
    /\ requests[3] = << "2", "0", "2", "4", "-", "0", "3", "-", "0", "1" >>
    /\ served[1].kind = "data" /\ served[2].kind = "raise" /\ served[3].kind = "none"

\* s is a date written as YYYY-MM-DD
IsIsoDate(s) == Strptime(s).ok /\ Strftime(Strptime(s).date) = s

(* C10 as stated: when start_date or end_date is not a valid YYYY-MM-DD    *)
(* date, the call returns empty containers and asks the storage nothing.   *)
C10_NotIsoReturnsEmpty ==
    pc = "done" /\ ~(IsIsoDate(start_date) /\ IsIsoDate(end_date)) =>
        ret = EmptyReturn /\ requests = << >>

(* C10 as amended: when strptime rejects start_date or end_date, the call  *)
(* returns empty containers without raising and asks the storage nothing;  *)
(* strptime accepts a month or day of one digit, such as 2024-2-28.        *)
C10_RejectedDatesReturnEmpty ==
    ~DatesValid(start_date, end_date) =>
        /\ pc \in { "start", "done" }
        /\ requests = << >>
        /\ pc = "done" => ret = EmptyReturn

\* the start parses and the end (29 February 2023) does not
C10_Witness ==
    /\ pc = "done"
    /\ Strptime(start_date).ok
    /\ end_date = << "2", "0", "2", "3", "-", "0", "2", "-", "2", "9" >>
    /\ ret = EmptyReturn
    /\ requests = << >>

(* C11: when current_platform_ids is given, id_to_name names only sources   *)
(* that are in it: an excluded source never gets its name recorded.        *)
C11_NamesOnlyOfAllowedSources ==
    ~current_platform_ids.none => DOMAIN final_id_to_name \subseteq current_platform_ids.ids

\* the title passes both filters, as the claim words them
TitlePasses(title) == TitleHasQuery(title) /\ TitleHasRegex(title)

(* C12: an item is merged only if its title passes the query filter and    *)
(* the include_regex filter; a step over an item that fails either one     *)
(* leaves results, title_records and every list of theirs as they were.    *)
C12_OnlyPassingItemsMerge ==
    [][(/\ pc = "items"
        /\ item_pos <= Len(CurrentList)
        /\ ~(CurrentList[item_pos].wf /\ TitlePasses(CurrentList[item_pos].title)))
       => accs' = accs]_vars

\* a record was merged and an item that passes the query and fails include_regex
\* was visited and left no record
C12_Witness ==
    /\ include_regex # << >>
    /\ Records # {}
    /\ \E i \in 1..Len(VisitedFrom(1)) :
         LET e == VisitedFrom(1)[i]
         IN  /\ e.item.wf
             /\ Allowed(e.source_id)
             /\ TitleHasQuery(e.item.title)
             /\ ~TitleHasRegex(e.item.title)
             /\ << e.source_id, e.item.title >> \notin Records

\* the (feed_id, item) pairs of a feed's list, in order
FeedPairs(feed) ==
    [ i \in 1..Len(feed.news_list) |-> [feed_id |-> feed.source_id, item |-> feed.news_list[i]] ]

RECURSIVE FlattenFeeds(_)
FlattenFeeds(feeds) ==
    IF feeds = << >> THEN << >> ELSE FeedPairs(Head(feeds)) \o FlattenFeeds(Tail(feeds))

\* the feed passes the feed-id filter of line 154
FeedAllowed(feed_id) ==
    \/ current_platform_ids.none
    \/ current_platform_ids.ids = {}
    \/ feed_id \in current_platform_ids.ids

\* reading this element ends the day: it is no RSS item, or the query or the
\* include_regex cannot be applied to it
EndsDay(e) ==
    \/ ~e.item.wf
    \/ query = TrueValue
    \/ TitleHasQuery(e.item.title) /\ include_regex # << >> /\ ~RegexCompiles(include_regex)

\* s up to, and without, its first element that ends the day
RECURSIVE UntilEnd(_)
UntilEnd(s) ==
    IF s = << >> \/ EndsDay(Head(s)) THEN << >> ELSE << Head(s) >> \o UntilEnd(Tail(s))

\* the raw items of the k-th served day that were read and survive the filters
SurvivorsOfDay(k) ==
    LET InAllowedFeed(e) == FeedAllowed(e.feed_id)
        Survives(e) == TitlePasses(e.item.title)
    IN  IF served[k].kind # "data" THEN << >>
        ELSE SelectSeq(UntilEnd(SelectSeq(FlattenFeeds(served[k].snap.items), InAllowedFeed)),
                       Survives)

RECURSIVE SurvivorsFrom(_)
SurvivorsFrom(k) ==
    IF k > Len(served) THEN << >> ELSE SurvivorsOfDay(k) \o SurvivorsFrom(k + 1)

C14_EntriesOnlyOfAllowedFeeds ==
    ~current_platform_ids.none =>
        /\ \A i \in 1..Len(rss_items) : rss_items[i].feed_id \in current_platform_ids.ids
        /\ \A r \in Records : r[1] \in current_platform_ids.ids

(* C15: the lists of the items the storage delivered are left as they were *)
(* delivered: a ranks or rank_timeline list that belongs to a served item  *)
(* still holds what that item was served with.                             *)
C15_ServedListsUnchanged ==
    \A r \in Records :
        /\ heap.ranks[RecordOf(r).ranks].own = "input" =>
              RanksOf(r) = Observations(r)[1].item.ranks
        /\ heap.timeline[RecordOf(r).rank_timeline].own = "input" =>
              TimelineOf(r) = Observations(r)[1].item.rank_timeline

---------------------------------------------------------------------------
(* What the claims about parse_frequency_rules speak about *)

\* a step of the loop over the blocks
BlockStep == pc = "groups" /\ group_pos <= Len(word_groups)

\* the line is [name], whatever the case of its letters
Names(line, name) == Upper(line) = << "[" >> \o name \o << "]" >>

\* the lines of the block without a first line that names a section
Remaining(lines) ==
    IF lines # << >> /\ (Names(lines[1], GLOBAL_FILTER) \/ Names(lines[1], WORD_GROUPS))
    THEN Tail(lines) ELSE lines

\* the line is bracketed and its content is no section name: an alias line
IsAliasLine(line) ==
    /\ IsBracketed(line)
    /\ Upper(Strip(Inner(line))) \notin SectionNames

Unreserved(lines) ==
    LET Kept(line) == line[1] \notin { "!", "+", "@" }
    IN  SelectSeq(lines, Kept)

(* C16 as stated: current_section changes only at a block whose first      *)
(* non-comment line is [GLOBAL_FILTER] or [WORD_GROUPS].                   *)
C16_SectionChangesOnlyAtNamedHeader ==
    [][current_section' # current_section =>
         /\ BlockStep
         /\ CurrentLines # << >>
         /\ CurrentLines[1] \in { << "[" >> \o GLOBAL_FILTER \o << "]" >>,
                                  << "[" >> \o WORD_GROUPS \o << "]" >> }]_vars

\* what a step does to current_section, global_filters and processed_groups
C16_Step ==
    IF ~BlockStep
    THEN UNCHANGED << current_section, global_filters >>
    ELSE LET lines == CurrentLines
         IN  /\ current_section' =
                  (IF lines # << >> /\ Names(lines[1], GLOBAL_FILTER) THEN GLOBAL_FILTER
                   ELSE IF lines # << >> /\ Names(lines[1], WORD_GROUPS) THEN WORD_GROUPS
                   ELSE current_section)
             /\ current_section' = GLOBAL_FILTER =>
                  /\ processed_groups' = processed_groups
                  /\ global_filters' = global_filters \o Unreserved(Remaining(lines))
             /\ current_section' = WORD_GROUPS => global_filters' = global_filters

(* C16 as amended: current_section is WORD_GROUPS at first and changes     *)
(* only at a block whose first non-comment line is [GLOBAL_FILTER] or      *)
(* [WORD_GROUPS] in any letter case; it persists over blocks and over the  *)
(* documents; a block read in GLOBAL_FILTER emits no group and appends to  *)
(* global_filters its remaining lines that do not start with !, + or @; a  *)
(* block read in WORD_GROUPS appends nothing to global_filters.            *)
C16_SectionPersists ==
    /\ [](pc = "rules" => current_section = WORD_GROUPS /\ global_filters = << >>)
    /\ [][C16_Step]_vars

\* [GLOBAL_FILTER] in the first document, and the second document, which names no
\* section, went to global_filters
C16_Witness ==
    /\ pc = "done"
    /\ Len(rule_strings) = 2
    /\ Len(word_groups) = 2
    /\ Len(LinesOf(word_groups[1])) = 2
    /\ Names(LinesOf(word_groups[1])[1], GLOBAL_FILTER)
    /\ current_section = GLOBAL_FILTER
    /\ ret[1] = << >>
    /\ ret[3] = << word_groups[2] >>

\* the block holds, after the section line and the alias line it may begin with,
\* only lines that start with @ or !
OnlyMarks(lines) ==
    LET rest == Remaining(lines)
        words == IF rest # << >> /\ IsAliasLine(rest[1]) THEN Tail(rest) ELSE rest
    IN  \A i \in 1..Len(words) : words[i][1] \in { "@", "!" }

\* the pieces between blank lines of the joined documents
RawBlocks == Split(Join(rule_strings, BlankLine), BlankLine)

HasWordLine(piece) ==
    \E i \in 1..Len(LinesOf(piece)) : LinesOf(piece)[i][1] \notin { "@", "!" }

C17_GroupsHaveWords ==
    /\ \A i \in 1..Len(processed_groups) :
         processed_groups[i].required # << >> \/ processed_groups[i].normal # << >>
    /\ Len(processed_groups) <= Len(SelectSeq(RawBlocks, HasWordLine))

(* C17: every group has a required or a normal word; a block of            *)
(* whitespace, of comments, or of @N and !word lines with or without an    *)
(* alias line emits no group; the groups are in the order of their blocks. *)
C17_NoGroupWithoutWords ==
    /\ []C17_GroupsHaveWords
    /\ [][/\ BlockStep /\ OnlyMarks(CurrentLines) => processed_groups' = processed_groups
          /\ \/ processed_groups' = processed_groups
             \/ /\ BlockStep
                /\ Len(processed_groups') = Len(processed_groups) + 1
                /\ SubSeq(processed_groups', 1, Len(processed_groups)) = processed_groups]_vars

\* a block of an alias line and a !word emitted nothing, the next block a group
C17_Witness ==
    /\ pc = "done"
    /\ Len(word_groups) = 2
    /\ Len(LinesOf(word_groups[1])) = 2
    /\ IsAliasLine(LinesOf(word_groups[1])[1])
    /\ OnlyMarks(LinesOf(word_groups[1]))
    /\ Len(filter_words) = 1
    /\ Len(processed_groups) = 1
    /\ processed_groups[1].group_key = word_groups[2]

RECURSIVE SpaceJoined(_)
SpaceJoined(tokens) ==
    IF tokens = << >> THEN << >>
    ELSE IF Len(tokens) = 1 THEN tokens[1].word
    ELSE tokens[1].word \o << " " >> \o SpaceJoined(Tail(tokens))

TechNews == << << "[", "T", "e", "c", "h", " ", "N", "e", "w", "s", "]", "\n", "a", "i", "\n", "c", "h", "i", "p" >> >>

(* C18: group_key is the text of the normal tokens joined by a space when  *)
(* there are normal tokens, and that of the required tokens otherwise;     *)
(* the lines [Tech News], ai, chip give group_key "ai chip" and            *)
(* display_name "Tech News".                                               *)
C18_GroupKeyOfNormalElseRequired ==
    /\ \A i \in 1..Len(processed_groups) :
         processed_groups[i].group_key =
           (IF processed_groups[i].normal # << >>
            THEN SpaceJoined(processed_groups[i].normal)
            ELSE SpaceJoined(processed_groups[i].required))
    /\ pc = "done" /\ rule_strings = TechNews =>
         /\ Len(ret[1]) = 1
         /\ ret[1][1].group_key = << "a", "i", " ", "c", "h", "i", "p" >>
         /\ ret[1][1].display_name = << "T", "e", "c", "h", " ", "N", "e", "w", "s" >>

\* an alias line, a required word, a !word and a normal word: the key is the normal word
C18_Witness ==
    /\ pc = "done"
    /\ Len(processed_groups) = 1
    /\ Len(filter_words) = 1
    /\ Len(processed_groups[1].required) = 1
    /\ Len(processed_groups[1].normal) = 1
    /\ processed_groups[1].display_name = << "T", "e", "c", "h", " ", "N", "e", "w", "s" >>
    /\ processed_groups[1].group_key = << "c", "h", "i", "p" >>

\* the step emits a group
Emitting == BlockStep /\ Len(processed_groups') = Len(processed_groups) + 1

\* the text of the alias line of the block the loop is at, "" when it has none
AliasText ==
    LET rest == Remaining(CurrentLines)
    IN  IF rest # << >> /\ IsAliasLine(rest[1]) THEN Strip(Inner(rest[1])) ELSE << >>

Contributing(g) == g.normal \o g.required

RECURSIVE SlashJoined(_)
SlashJoined(parts) ==
    IF parts = << >> THEN << >>
    ELSE IF Len(parts) = 1 THEN parts[1]
    ELSE parts[1] \o << " ", "/", " " >> \o SlashJoined(Tail(parts))

(* C19 as stated: display_name is the alias when there is one, otherwise   *)
(* the => names of the tokens joined by " / ", otherwise null: a group     *)
(* without alias whose tokens carry no => name has display_name null.      *)
C19_DisplayNameAliasNamesOrNull ==
    [][Emitting =>
         LET g == processed_groups'[Len(processed_groups')]
             tokens == Contributing(g)
         IN  /\ AliasText # << >> => g.display_name = AliasText
             /\ (AliasText = << >> /\ \A i \in 1..Len(tokens) : tokens[i].display_name # None)
                  => g.display_name = SlashJoined([ i \in 1..Len(tokens) |-> tokens[i].display_name ])
             /\ (AliasText = << >> /\ \A i \in 1..Len(tokens) : tokens[i].display_name = None)
                  => g.display_name = None]_vars

(* C19 as amended: display_name is the alias when the block has a          *)
(* non-empty one; otherwise it is, over the normal tokens and then the     *)
(* required ones, the => name of each token or, for a token without one,   *)
(* its word, joined by " / "; it is never null.                            *)
C19_DisplayNameAliasElseNamesOrWords ==
    [][Emitting =>
         LET g == processed_groups'[Len(processed_groups')]
             tokens == Contributing(g)
             parts == [ i \in 1..Len(tokens) |->
                          IF tokens[i].display_name # None THEN tokens[i].display_name
                          ELSE tokens[i].word ]
         IN  /\ g.display_name # None
             /\ g.display_name = (IF AliasText # << >> THEN AliasText ELSE SlashJoined(parts))]_vars

\* a named required token and a regex token without name, no alias line: the
\* display_name is the word of the one and the name of the other
C19_Witness ==
    /\ pc = "done"
    /\ Len(word_groups) = 1
    /\ Len(processed_groups) = 1
    /\ Len(processed_groups[1].normal) = 1
    /\ Len(processed_groups[1].required) = 1
    /\ processed_groups[1].normal[1].is_regex
    /\ processed_groups[1].normal[1].display_name = None
    /\ processed_groups[1].required[1].display_name = << "M" >>
    /\ processed_groups[1].display_name = << "a", ".", " ", "/", " ", "M" >>

(* C20: the call _fetch_all_data makes for a start_date and an end_date   *)
(* returns what get_titles_by_date_range returns for the same storage,     *)
(* dates and allowed sources with query and include_regex absent: every    *)
(* title of every allowed source in the range is aggregated.               *)
C20_FetchEqualsUnfilteredRange ==
    world = "service" /\ Returned =>
        LET expected == RunDays(EmptyAcc, served, 1, current_platform_ids, << >>, << >>)
        IN  ret = ReturnOf(expected) /\ heap = expected.heap

(* C21: POST /api/v1/briefing with an initialized service and a request   *)
(* that has neither rules nor preset is answered with HTTP status 400, and *)
(* no data fetch and no AI analysis is started for it.                     *)
C21_NeitherRulesNorPresetIs400 ==
    (/\ fn = "create_briefing"
     /\ pc = "done"
     /\ service
     /\ Len(request.rules) = 0
     /\ request.preset = None \/ Len(request.preset) = 0)
    => response.status_code = 400 /\ started = << >>

\* the call runs on: a step that can be taken is taken
FairRange == InitRange /\ [][Next]_vars /\ WF_vars(Next)

===========================================================================
